---- MODULE Spec2Model ----
(***************************************************************************)
(* The game catalog of services/game-service: the `games` table and the   *)
(* statements of db.rs that read and write it.  Every function of db.rs    *)
(* is one SQL statement (list_games: two), which PostgreSQL applies to a   *)
(* row atomically; requests run concurrently, so a call is first issued    *)
(* (its arguments and, where the function calls Utc::now(), its timestamp  *)
(* are fixed) and later executed against the table.                        *)
(*                                                                         *)
(* Decimals (price, average_rating, a rating) are fixed-point numbers,     *)
(* held here as integers in units of the last digit of the column          *)
(* (DecimalScale digits after the point: 500 is 5.00).                     *)
(***************************************************************************)
EXTENDS Integers, Sequences, FiniteSets, TLC

VARIABLES
    games,      \* the games table: a function from the ids of the stored rows to the rows
    calls,      \* the requests in flight, one per slot of the serving runtime
    now,        \* the clock read by Utc::now() and NOW()
    last,       \* the call that completed last, with what it returned
    applied,    \* history: per id, the calls executed on its row
    raced,      \* history: the operations executed on a live row while another call of the same operation on that id was in flight
    requests,   \* RateLimiter.requests of the gateway: per client ip, the instants of the requests kept
    admitted    \* history: per client ip, the instants of the requests the limiter admitted

vars == <<games, calls, now, last, applied, raced, requests, admitted>>

\* Option<T> and a nullable column: None (SQL NULL) or Some(v)
None == <<>>
Some(v) == <<v>>
Unwrap(o) == o[1]

(***************************************************************************)
(* Bounds of the model                                                     *)
(***************************************************************************)
MaxGames == 2          \* rows ever inserted
MaxSlots == 2          \* requests in flight at once
MaxTime == 1           \* clock readings 0..MaxTime
MaxPurchases == 2      \* increment_purchase_count calls per game
MaxRatings == 3        \* update_game_rating calls per game
MaxShots == 2          \* add_screenshot calls per game
MaxUpdates == 1        \* update_game calls per game

GameIds == 1..MaxGames
Slots == 1..MaxSlots

\* digits after the decimal point of the price and average_rating columns
DecimalScale == 2
\* 1.00 in column units
One == 10 ^ DecimalScale

(***************************************************************************)
(* models.rs: the enums and their wire (proto) values                      *)
(***************************************************************************)
DbGameCategory ==
    {"Unspecified", "Action", "Rpg", "Strategy", "Sports", "Racing",
     "Adventure", "Simulation", "Puzzle"}

DbGameStatus == {"Unspecified", "Draft", "UnderReview", "Published", "Suspended"}

\* DbGameStatus::to_proto
StatusToProto(s) ==
    CASE s = "Draft" -> 1
      [] s = "UnderReview" -> 2
      [] s = "Published" -> 3
      [] s = "Suspended" -> 4
      [] OTHER -> 0

\* DbGameStatus::from_proto
StatusFromProto(v) ==
    CASE v = 1 -> "Draft"
      [] v = 2 -> "UnderReview"
      [] v = 3 -> "Published"
      [] v = 4 -> "Suspended"
      [] OTHER -> "Unspecified"

\* the CASE $n WHEN 1 THEN 'draft'::game_status ... END of the statements:
\* the label of the game_status column for a wire value, NULL for any other value
StatusLabel(v) ==
    CASE v = 1 -> Some("draft")
      [] v = 2 -> Some("under_review")
      [] v = 3 -> Some("published")
      [] v = 4 -> Some("suspended")
      [] OTHER -> None

\* #[sqlx(rename_all = "snake_case")]: the label a DbGameStatus is stored under
StatusName(s) ==
    CASE s = "Draft" -> "draft"
      [] s = "UnderReview" -> "under_review"
      [] s = "Published" -> "published"
      [] s = "Suspended" -> "suspended"
      [] OTHER -> "unspecified"

\* format!("{:?}", c).to_lowercase()
CategoryString(c) ==
    CASE c = "Action" -> "action"
      [] c = "Rpg" -> "rpg"
      [] c = "Strategy" -> "strategy"
      [] c = "Sports" -> "sports"
      [] c = "Racing" -> "racing"
      [] c = "Adventure" -> "adventure"
      [] c = "Simulation" -> "simulation"
      [] c = "Puzzle" -> "puzzle"
      [] OTHER -> "unspecified"

\* the labels of the game_category enum type of the schema
GameCategoryLabels ==
    {"action", "rpg", "strategy", "sports", "racing", "adventure",
     "simulation", "puzzle"}

\* categories.iter().map(..).collect(): the text[] parameter of a statement
CategoryStrings(cats) == [i \in 1..Len(cats) |-> CategoryString(cats[i])]

\* $n::text[]::game_category[]: the cast fails on a string that is no label
CastFails(strs) == \E i \in 1..Len(strs) : strs[i] \notin GameCategoryLabels

\* categories.as_ref().map(|cats| ..): the optional text[] parameter
OptionalCategoryStrings(o) == IF o = None THEN None ELSE Some(CategoryStrings(Unwrap(o)))

\* status.as_ref().map(|s| s.to_proto() as i32)
OptionalStatusToProto(o) == IF o = None THEN None ELSE Some(StatusToProto(Unwrap(o)))

Range(s) == {s[i] : i \in 1..Len(s)}

(***************************************************************************)
(* Decimal arithmetic of the store                                         *)
(***************************************************************************)
Abs(x) == IF x < 0 THEN -x ELSE x

\* a / b on numerics, assigned to a column of DecimalScale digits: the
\* quotient is rounded to the nearest unit, halves away from zero (b > 0)
RoundDiv(a, b) ==
    LET q == (2 * Abs(a) + b) \div (2 * b)
    IN  IF a < 0 THEN -q ELSE q

(***************************************************************************)
(* db.rs: the statements, as functions of the table g                      *)
(* Each returns the table after the statement and the function's result:   *)
(* [kind |-> "Ok", value |-> v] or [kind |-> "Err", value |-> e] with e the *)
(* sqlx::Error variant.                                                    *)
(***************************************************************************)
Ok(v) == [kind |-> "Ok", value |-> v]
Err(e) == [kind |-> "Err", value |-> e]
Unit == "()"

\* a row the statements' WHERE id = $1 AND deleted_at IS NULL selects
Live(g, id) == id \in DOMAIN g /\ g[id].deleted_at = None

\* the columns the INSERT of create_game does not name take their defaults
DefaultRatingCount == 0
DefaultAverageRating == 0
DefaultPurchaseCount == 0

\* A fresh id: Uuid::new_v4() does not repeat an id of the table
NewId(g) == CHOOSE id \in GameIds : id \notin DOMAIN g /\ \A j \in GameIds : j < id => j \in DOMAIN g

\* create_game inserting the game as published
create_game_published(g, id, name, description, developer_id, publisher_id, cover_image, trailer_url, release_date, categories, tags, platforms, price, t) ==
    LET category_strings == CategoryStrings(categories)
        game == [id |-> id, name |-> name, description |-> description,
                 developer_id |-> developer_id, publisher_id |-> publisher_id,
                 cover_image |-> IF cover_image = None THEN "" ELSE Unwrap(cover_image),
                 trailer_url |-> trailer_url,
                 release_date |-> release_date, price |-> price,
                 status |-> "published",
                 categories |-> category_strings,
                 tags |-> tags, platforms |-> platforms,
                 screenshots |-> <<>>,
                 rating_count |-> DefaultRatingCount,
                 average_rating |-> DefaultAverageRating,
                 purchase_count |-> DefaultPurchaseCount,
                 created_at |-> t, updated_at |-> t, deleted_at |-> None]
    IN  IF \/ id \in DOMAIN g             \* primary key
           \/ cover_image = None          \* DbGame.cover_image is not nullable
           \/ CastFails(category_strings)
        THEN [store |-> g, result |-> Err("Database")]
        ELSE [store |-> [i \in DOMAIN g \cup {id} |-> IF i = id THEN game ELSE g[i]],
              result |-> Ok(game)]

create_game(g, id, name, description, developer_id, publisher_id, cover_image, trailer_url, release_date, categories, tags, platforms, price, t) ==
    LET category_strings == CategoryStrings(categories)
        game == [id |-> id, name |-> name, description |-> description,
                 developer_id |-> developer_id, publisher_id |-> publisher_id,
                 cover_image |-> IF cover_image = None THEN "" ELSE Unwrap(cover_image),
                 trailer_url |-> trailer_url,
                 release_date |-> release_date, price |-> price,
                 status |-> "draft",
                 categories |-> category_strings,
                 tags |-> tags, platforms |-> platforms,
                 screenshots |-> <<>>,
                 rating_count |-> DefaultRatingCount,
                 average_rating |-> DefaultAverageRating,
                 purchase_count |-> DefaultPurchaseCount,
                 created_at |-> t, updated_at |-> t, deleted_at |-> None]
    IN  IF \/ id \in DOMAIN g             \* primary key
           \/ cover_image = None          \* DbGame.cover_image is not nullable
           \/ CastFails(category_strings)
        THEN [store |-> g, result |-> Err("Database")]
        ELSE [store |-> [i \in DOMAIN g \cup {id} |-> IF i = id THEN game ELSE g[i]],
              result |-> Ok(game)]

get_game_by_id(g, id) ==
    IF Live(g, id) THEN Some(g[id]) ELSE None

\* COALESCE($n, column)
Coalesce(v, column) == IF v # None THEN Unwrap(v) ELSE column

\* the fields of update_game's patch, each None or Some(v)
PatchFields ==
    {"name", "description", "price", "cover_image", "trailer_url", "status",
     "categories", "tags", "platforms", "screenshots"}

\* update_game with the parameters of tags and platforms exchanged
update_game_swapped(g, id, p, t) ==
    LET record == [g[id] EXCEPT
                      !.name = Coalesce(p.name, @),
                      !.description = Coalesce(p.description, @),
                      !.price = Coalesce(p.price, @),
                      !.cover_image = Coalesce(p.cover_image, @),
                      !.trailer_url = IF p.trailer_url # None THEN p.trailer_url ELSE @,
                      !.status = IF p.status # None THEN StatusName(Unwrap(p.status)) ELSE @,
                      !.categories = Coalesce(OptionalCategoryStrings(p.categories), @),
                      !.tags = Coalesce(p.platforms, @),
                      !.platforms = Coalesce(p.tags, @),
                      !.screenshots = Coalesce(p.screenshots, @),
                      !.updated_at = t]
    IN  IF ~Live(g, id)
        THEN [store |-> g, result |-> Err("RowNotFound")]
        ELSE IF p.status = Some("Unspecified")
                  \/ (p.categories # None /\ CastFails(CategoryStrings(Unwrap(p.categories))))
        THEN [store |-> g, result |-> Err("Database")]
        ELSE [store |-> [g EXCEPT ![id] = record], result |-> Ok(record)]

\* update_game without AND deleted_at IS NULL
update_game_any_row(g, id, p, t) ==
    LET record == [g[id] EXCEPT
                      !.name = Coalesce(p.name, @),
                      !.description = Coalesce(p.description, @),
                      !.price = Coalesce(p.price, @),
                      !.cover_image = Coalesce(p.cover_image, @),
                      !.trailer_url = IF p.trailer_url # None THEN p.trailer_url ELSE @,
                      !.status = IF p.status # None THEN StatusName(Unwrap(p.status)) ELSE @,
                      !.categories = Coalesce(OptionalCategoryStrings(p.categories), @),
                      !.tags = Coalesce(p.tags, @),
                      !.platforms = Coalesce(p.platforms, @),
                      !.screenshots = Coalesce(p.screenshots, @),
                      !.updated_at = t]
    IN  IF id \notin DOMAIN g
        THEN [store |-> g, result |-> Err("RowNotFound")]
        ELSE IF p.status = Some("Unspecified")
                  \/ (p.categories # None /\ CastFails(CategoryStrings(Unwrap(p.categories))))
        THEN [store |-> g, result |-> Err("Database")]
        ELSE [store |-> [g EXCEPT ![id] = record], result |-> Ok(record)]

\* update_game binding screenshots without COALESCE: no value is the empty array
update_game_screenshots_bound(g, id, p, t) ==
    LET record == [g[id] EXCEPT
                      !.name = Coalesce(p.name, @),
                      !.description = Coalesce(p.description, @),
                      !.price = Coalesce(p.price, @),
                      !.cover_image = Coalesce(p.cover_image, @),
                      !.trailer_url = IF p.trailer_url # None THEN p.trailer_url ELSE @,
                      !.status = IF p.status # None THEN StatusName(Unwrap(p.status)) ELSE @,
                      !.categories = Coalesce(OptionalCategoryStrings(p.categories), @),
                      !.tags = Coalesce(p.tags, @),
                      !.platforms = Coalesce(p.platforms, @),
                      !.screenshots = Coalesce(p.screenshots, <<>>),
                      !.updated_at = t]
    IN  IF ~Live(g, id)
        THEN [store |-> g, result |-> Err("RowNotFound")]
        ELSE IF p.status = Some("Unspecified")
                  \/ (p.categories # None /\ CastFails(CategoryStrings(Unwrap(p.categories))))
        THEN [store |-> g, result |-> Err("Database")]
        ELSE [store |-> [g EXCEPT ![id] = record], result |-> Ok(record)]

update_game(g, id, p, t) ==
    LET category_strings == OptionalCategoryStrings(p.categories)
        status == OptionalStatusToProto(p.status)
        new_status == IF status # None THEN StatusLabel(Unwrap(status)) ELSE Some(g[id].status)
        record == [g[id] EXCEPT
                      !.name = Coalesce(p.name, @),
                      !.description = Coalesce(p.description, @),
                      !.price = Coalesce(p.price, @),
                      !.cover_image = Coalesce(p.cover_image, @),
                      !.trailer_url = IF p.trailer_url # None THEN p.trailer_url ELSE @,
                      !.status = Unwrap(new_status),
                      !.categories = Coalesce(category_strings, @),
                      !.tags = Coalesce(p.tags, @),
                      !.platforms = Coalesce(p.platforms, @),
                      !.screenshots = Coalesce(p.screenshots, @),
                      !.updated_at = t]
    IN  IF ~Live(g, id)
        THEN [store |-> g, result |-> Err("RowNotFound")]    \* fetch_one on no row
        ELSE IF new_status = None \/ (category_strings # None /\ CastFails(Unwrap(category_strings)))
        THEN [store |-> g, result |-> Err("Database")]       \* status is not nullable
        ELSE [store |-> [g EXCEPT ![id] = record], result |-> Ok(record)]

\* delete_game without AND developer_id = $2
delete_game_any_owner(g, id, developer_id, t) ==
    [store |-> IF Live(g, id) THEN [g EXCEPT ![id].deleted_at = Some(t)] ELSE g,
     result |-> Ok(Live(g, id))]

\* delete_game that also moves the row to the suspended status
delete_game_suspends(g, id, developer_id, t) ==
    LET hit == Live(g, id) /\ g[id].developer_id = developer_id
    IN  [store |-> IF hit
                   THEN [g EXCEPT ![id] = [@ EXCEPT !.deleted_at = Some(t), !.status = "suspended"]]
                   ELSE g,
         result |-> Ok(hit)]

delete_game(g, id, developer_id, t) ==
    LET hit == Live(g, id) /\ g[id].developer_id = developer_id
    IN  [store |-> IF hit THEN [g EXCEPT ![id].deleted_at = Some(t)] ELSE g,
         result |-> Ok(hit)]       \* rows_affected > 0

update_game_rating(g, game_id, new_rating, t) ==
    [store |-> IF Live(g, game_id)
               THEN [g EXCEPT ![game_id] =
                       [@ EXCEPT !.average_rating =
                                     RoundDiv(g[game_id].average_rating * g[game_id].rating_count + new_rating,
                                              g[game_id].rating_count + 1),
                                 !.rating_count = @ + 1,
                                 !.updated_at = t]]
               ELSE g,
     result |-> Ok(Unit)]

\* increment_purchase_count counting from the column of the statement above it
increment_purchase_count_wrong_column(g, game_id, t) ==
    [store |-> IF Live(g, game_id)
               THEN [g EXCEPT ![game_id] =
                       [@ EXCEPT !.purchase_count = g[game_id].rating_count + 1,
                                 !.updated_at = t]]
               ELSE g,
     result |-> Ok(Unit)]

\* increment_purchase_count without WHERE id = $1
increment_purchase_count_every_row(g, game_id, t) ==
    [store |-> [id \in DOMAIN g |->
                  IF g[id].deleted_at = None
                  THEN [g[id] EXCEPT !.purchase_count = @ + 1, !.updated_at = t]
                  ELSE g[id]],
     result |-> Ok(Unit)]

increment_purchase_count(g, game_id, t) ==
    [store |-> IF Live(g, game_id)
               THEN [g EXCEPT ![game_id] =
                       [@ EXCEPT !.purchase_count = @ + 1, !.updated_at = t]]
               ELSE g,
     result |-> Ok(Unit)]

\* array_remove that stops at the first element equal to x
array_remove_first(a, x) ==
    IF \A i \in 1..Len(a) : a[i] # x
    THEN a
    ELSE LET i == CHOOSE k \in 1..Len(a) : a[k] = x /\ \A j \in 1..(k - 1) : a[j] # x
         IN  SubSeq(a, 1, i - 1) \o SubSeq(a, i + 1, Len(a))

\* array_remove(a, x): a without the elements equal to x
RECURSIVE array_remove(_, _)
array_remove(a, x) ==
    IF a = <<>> THEN <<>>
    ELSE IF Head(a) = x THEN array_remove(Tail(a), x)
    ELSE <<Head(a)>> \o array_remove(Tail(a), x)

\* add_screenshot without AND deleted_at IS NULL
add_screenshot_any_row(g, game_id, screenshot_url, t) ==
    [store |-> IF game_id \in DOMAIN g
               THEN [g EXCEPT ![game_id] =
                       [@ EXCEPT !.screenshots = Append(@, screenshot_url), !.updated_at = t]]
               ELSE g,
     result |-> Ok(Unit)]

add_screenshot(g, game_id, screenshot_url, t) ==
    [store |-> IF Live(g, game_id)
               THEN [g EXCEPT ![game_id] =
                       [@ EXCEPT !.screenshots = Append(@, screenshot_url), !.updated_at = t]]
               ELSE g,
     result |-> Ok(Unit)]

remove_screenshot(g, game_id, screenshot_url, t) ==
    [store |-> IF Live(g, game_id)
               THEN [g EXCEPT ![game_id] =
                       [@ EXCEPT !.screenshots = array_remove(@, screenshot_url), !.updated_at = t]]
               ELSE g,
     result |-> Ok(Unit)]

(***************************************************************************)
(* db.rs: the queries                                                      *)
(* ORDER BY leaves the order of rows with equal keys to the store, so a    *)
(* query has a set of possible results.                                    *)
(***************************************************************************)
\* to_tsvector('english', name) @@ plainto_tsquery('english', q), on texts
\* held as the sequences of their lexemes: every lexeme of the query occurs
\* in the name, and a query without lexemes matches nothing
TsMatch(name, q) == Range(q) # {} /\ Range(q) \subseteq Range(name)

\* ListWhere without deleted_at IS NULL
ListWhereAnyRow(row, f) ==
    /\ (f.developer_id = None \/ row.developer_id = Unwrap(f.developer_id))
    /\ (f.categories = None
          \/ Range(row.categories) \cap Range(CategoryStrings(Unwrap(f.categories))) # {})
    /\ (f.min_price = None \/ row.price >= Unwrap(f.min_price))
    /\ (f.max_price = None \/ row.price <= Unwrap(f.max_price))
    /\ (f.status = None \/ Some(row.status) = StatusLabel(StatusToProto(Unwrap(f.status))))
    /\ (f.search_query = None \/ TsMatch(row.name, Unwrap(f.search_query)))

\* the WHERE clause shared by the two statements of list_games; f is the filter
\* [developer_id, categories, min_price, max_price, status, search_query]
ListWhere(row, f) ==
    LET category_strings == OptionalCategoryStrings(f.categories)
        status == OptionalStatusToProto(f.status)
    IN  /\ row.deleted_at = None
        /\ (f.developer_id = None \/ row.developer_id = Unwrap(f.developer_id))
        /\ (category_strings = None
              \/ Range(row.categories) \cap Range(Unwrap(category_strings)) # {})
        /\ (f.min_price = None \/ row.price >= Unwrap(f.min_price))
        /\ (f.max_price = None \/ row.price <= Unwrap(f.max_price))
        /\ (status = None \/ Some(row.status) = StatusLabel(Unwrap(status)))
        /\ (f.search_query = None \/ TsMatch(row.name, Unwrap(f.search_query)))


\* LIMIT limit OFFSET offset
Window(s, limit, offset) ==
    IF offset >= Len(s) THEN <<>>
    ELSE SubSeq(s, offset + 1, IF limit < Len(s) - offset THEN offset + limit ELSE Len(s))

\* ORDER BY created_at DESC
ByCreatedDesc(a, b) == a.created_at > b.created_at

\* ORDER BY average_rating DESC, purchase_count DESC
ByRatingThenPurchases(a, b) ==
    \/ a.average_rating > b.average_rating
    \/ a.average_rating = b.average_rating /\ a.purchase_count > b.purchase_count

\* ORDER BY purchase_count DESC, average_rating DESC
ByPurchasesThenRating(a, b) ==
    \/ a.purchase_count > b.purchase_count
    \/ a.purchase_count = b.purchase_count /\ a.average_rating > b.average_rating

\* row a comes strictly before row b under the ORDER BY clause order
Before(order, a, b) ==
    CASE order = "created_at DESC" -> ByCreatedDesc(a, b)
      [] order = "average_rating DESC, purchase_count DESC" -> ByRatingThenPurchases(a, b)
      [] order = "purchase_count DESC, average_rating DESC" -> ByPurchasesThenRating(a, b)

\* the orders the store may return the rows of S in under the ORDER BY clause
SortedSeqs(S, order) ==
    {s \in [1..Cardinality(S) -> S] :
        /\ \A i, j \in 1..Cardinality(S) : i # j => s[i] # s[j]
        /\ \A i, j \in 1..Cardinality(S) : i < j => ~Before(order, s[j], s[i])}

Rows(g) == {g[i] : i \in DOMAIN g}

get_all_games(g) ==
    {Ok(s) : s \in SortedSeqs({r \in Rows(g) : r.deleted_at = None}, "created_at DESC")}

\* list_games_page without the status dimension
list_games_page_any_status(g, f, limit, offset) ==
    IF limit < 0 \/ offset < 0
    THEN {Err("Database")}
    ELSE {Ok(Window(s, limit, offset)) :
            s \in SortedSeqs({r \in Rows(g) : ListWhere(r, [f EXCEPT !.status = None])},
                             "created_at DESC")}

\* the first statement of list_games: the possible pages
list_games_page(g, f, limit, offset) ==
    IF limit < 0 \/ offset < 0       \* LIMIT / OFFSET must not be negative
    THEN {Err("Database")}
    ELSE {Ok(Window(s, limit, offset)) :
            s \in SortedSeqs({r \in Rows(g) : ListWhere(r, f)}, "created_at DESC")}

\* list_games_total without deleted_at IS NULL
list_games_total_any_row(g, f) == Cardinality({r \in Rows(g) : ListWhereAnyRow(r, f)})

\* the second statement of list_games: SELECT COUNT(*)
list_games_total(g, f) == Cardinality({r \in Rows(g) : ListWhere(r, f)})

get_games_by_category(g, category, limit, offset) ==
    IF limit < 0 \/ offset < 0 \/ CategoryString(category) \notin GameCategoryLabels
    THEN {Err("Database")}
    ELSE {Ok(Window(s, limit, offset)) :
            s \in SortedSeqs({r \in Rows(g) :
                                /\ CategoryString(category) \in Range(r.categories)
                                /\ r.status = "published"
                                /\ r.deleted_at = None},
                             "average_rating DESC, purchase_count DESC")}

get_popular_games(g, limit) ==
    IF limit < 0
    THEN {Err("Database")}
    ELSE {Ok(Window(s, limit, 0)) :
            s \in SortedSeqs({r \in Rows(g) : r.status = "published" /\ r.deleted_at = None},
                             "purchase_count DESC, average_rating DESC")}

(***************************************************************************)
(* models.rs and the handlers: the wire values                             *)
(* A string the code parses (page_token) is the sequence of its            *)
(* characters; an i32 keeps its 32 bits.                                   *)
(***************************************************************************)
\* DbGameCategory::from_proto
CategoryFromProto(v) ==
    CASE v = 1 -> "Action"
      [] v = 2 -> "Rpg"
      [] v = 3 -> "Strategy"
      [] v = 4 -> "Sports"
      [] v = 5 -> "Racing"
      [] v = 6 -> "Adventure"
      [] v = 7 -> "Simulation"
      [] v = 8 -> "Puzzle"
      [] OTHER -> "Unspecified"

\* DbGameCategory::to_proto
CategoryToProto(c) ==
    CASE c = "Action" -> 1
      [] c = "Rpg" -> 2
      [] c = "Strategy" -> 3
      [] c = "Sports" -> 4
      [] c = "Racing" -> 5
      [] c = "Adventure" -> 6
      [] c = "Simulation" -> 7
      [] c = "Puzzle" -> 8
      [] OTHER -> 0

\* #[sqlx(rename_all = "lowercase")]: the DbGameCategory a stored label decodes to
CategoryOfLabel(l) == CHOOSE c \in DbGameCategory : CategoryString(c) = l

\* #[sqlx(rename_all = "snake_case")]: the DbGameStatus a stored label decodes to
StatusOfLabel(l) == CHOOSE st \in DbGameStatus : StatusName(st) = l

\* req.categories.into_iter().map(DbGameCategory::from_proto).collect()
CategoriesFromProto(vs) == [i \in 1..Len(vs) |-> CategoryFromProto(vs[i])]

I32Max == 2147483647
I32Min == -2147483647 - 1

DigitChars == <<"0", "1", "2", "3", "4", "5", "6", "7", "8", "9">>

DigitValue(c) == CHOOSE d \in 0..9 : DigitChars[d + 1] = c

\* the digits of str read as a number not above bound, None on a character
\* that is no digit and on a number above bound
RECURSIVE ParseDigits(_, _, _)
ParseDigits(str, acc, bound) ==
    IF str = <<>> THEN Some(acc)
    ELSE IF Head(str) \notin Range(DigitChars) THEN None
    ELSE LET d == DigitValue(Head(str))
         IN  IF acc > (bound - d) \div 10 THEN None
             ELSE ParseDigits(Tail(str), acc * 10 + d, bound)

\* the digits of str read as a number not below I32Min, accumulated downwards
RECURSIVE ParseNegativeDigits(_, _)
ParseNegativeDigits(str, acc) ==
    IF str = <<>> THEN Some(acc)
    ELSE IF Head(str) \notin Range(DigitChars) THEN None
    ELSE LET d == DigitValue(Head(str))
         IN  IF acc < (I32Min + d + 9) \div 10 THEN None
             ELSE ParseNegativeDigits(Tail(str), acc * 10 - d)

\* str.parse::<i32>(): an optional sign and at least one digit, within the i32 range
ParseI32(str) ==
    IF str = <<>> THEN None
    ELSE IF Head(str) \in {"+", "-"} /\ Tail(str) = <<>> THEN None
    ELSE IF Head(str) = "-" THEN ParseNegativeDigits(Tail(str), 0)
    ELSE IF Head(str) = "+" THEN ParseDigits(Tail(str), 0, I32Max)
    ELSE ParseDigits(str, 0, I32Max)

\* the decimal digits of n >= 0
RECURSIVE Digits(_)
Digits(n) ==
    IF n < 10 THEN <<DigitChars[n + 1]>>
    ELSE Digits(n \div 10) \o <<DigitChars[(n % 10) + 1]>>

\* the decimal digits of m + 1, for m >= 0 (m + 1 may be I32Max + 1)
DigitsOfSucc(m) ==
    LET q == IF m % 10 = 9 THEN m \div 10 + 1 ELSE m \div 10
        d == ((m % 10) + 1) % 10
    IN  IF q = 0 THEN <<DigitChars[d + 1]>> ELSE Digits(q) \o <<DigitChars[d + 1]>>

\* i32::to_string
I32ToString(n) == IF n >= 0 THEN Digits(n) ELSE <<"-">> \o DigitsOfSucc(-(n + 1))

\* a + b of two i32 overflows
AddOverflows(a, b) == (b > 0 /\ a > I32Max - b) \/ (b < 0 /\ a < I32Min - b)

\* a + b of two i32 in two's complement (the build without overflow checks)
WrappingAdd(a, b) ==
    IF b > 0 /\ a > I32Max - b THEN (a - I32Max - 1) + (b - I32Max - 1)
    ELSE IF b < 0 /\ a < I32Min - b THEN (a - I32Min) + (b - I32Min)
    ELSE a + b

\* total as i32, for the totals a table of the model has
AsI32(total) == IF total <= I32Max THEN total ELSE (total - I32Max - 1) + I32Min

\* Uuid::parse_str: the strings that are UUIDs
Uuids == {"dev1", "dev2", "pub1"}

(***************************************************************************)
(* grpc_service.rs: GameServiceImpl::list_games                            *)
(* The request is [page_size, page_token, developer_id, categories,        *)
(* min_price, max_price, status, search_query]; "" and the empty list mean *)
(* an absent dimension, and a price is in hundredths.                      *)
(***************************************************************************)
Min(a, b) == IF a < b THEN a ELSE b
Max(a, b) == IF a > b THEN a ELSE b

\* req.page_size.max(1).min(100)
ListLimit(req) == Min(Max(req.page_size, 1), 100)

\* req.page_token.parse::<i32>().unwrap_or(0)
ListOffset(req) ==
    LET parsed == ParseI32(req.page_token)
    IN  IF parsed = None THEN 0 ELSE Unwrap(parsed)

\* Decimal::new(p, 2): p hundredths, in units of the price column
DecimalNew(p, scale) == p * 10 ^ (DecimalScale - scale)

\* the arguments list_games of db.rs is called with
ListFilter(req) ==
    [developer_id |-> IF req.developer_id = "" THEN None ELSE Some(req.developer_id),
     categories |-> IF req.categories = <<>> THEN None
                    ELSE Some(CategoriesFromProto(req.categories)),
     min_price |-> IF req.min_price = None THEN None
                   ELSE Some(DecimalNew(Unwrap(req.min_price), 2)),
     max_price |-> IF req.max_price = None THEN None
                   ELSE Some(DecimalNew(Unwrap(req.max_price), 2)),
     status |-> IF req.status = 0 THEN None ELSE Some(StatusFromProto(req.status)),
     search_query |-> IF req.search_query = <<>> THEN None ELSE Some(req.search_query)]

\* Uuid::parse_str(&req.developer_id) fails
ListRejects(req) == req.developer_id # "" /\ req.developer_id \notin Uuids

\* the next_page_token of the response: offset + limit of two i32 panics on
\* overflow in a build with overflow checks and wraps in a build without
NextPageTokens(offset, limit, total) ==
    IF AddOverflows(offset, limit)
    THEN {Err("Panic"),
          Ok(IF WrappingAdd(offset, limit) < AsI32(total)
             THEN I32ToString(WrappingAdd(offset, limit)) ELSE <<>>)}
    ELSE {Ok(IF offset + limit < AsI32(total) THEN I32ToString(offset + limit) ELSE <<>>)}

\* the responses of the handler for the page and the total the store returned
ListResponses(req, page, total) ==
    {IF tok.kind = "Err" THEN tok
     ELSE Ok([games |-> page, total_count |-> total, next_page_token |-> tok.value]) :
        tok \in NextPageTokens(ListOffset(req), ListLimit(req), total)}

(***************************************************************************)
(* main.rs: GameServiceImpl::create_game                                   *)
(* The request is [name, description, developer_id, publisher_id,          *)
(* cover_image, trailer_url, release_date, categories, tags, platforms,    *)
(* price]; the price is an f64: NaN, or Some(v) with v in thousandths.     *)
(***************************************************************************)
NaN == None

\* the unit of the finite f64 prices of the model: 0.001
F64Unit == 1000

\* Decimal::from_f64_retain(req.price).unwrap_or_default(), as the price column
\* holds it: NaN has no decimal and gives 0, a finite price is rounded to the
\* scale of the column
DecimalFromF64(x) == IF x = NaN THEN 0 ELSE RoundDiv(Unwrap(x) * One, F64Unit)

\* chrono::NaiveDate::parse_from_str(&req.release_date, "%Y-%m-%d"): the
\* number of the day, None for a string that is no date
ParseDate(str) ==
    CASE str = "2024-01-01" -> Some(0)
      [] str = "2024-01-02" -> Some(1)
      [] OTHER -> None

GameServiceImpl_create_game(g, id, req, t) ==
    IF req.developer_id \notin Uuids
    THEN [store |-> g, result |-> Err("InvalidArgument")]
    ELSE IF req.publisher_id # None /\ Unwrap(req.publisher_id) \notin Uuids
    THEN [store |-> g, result |-> Err("InvalidArgument")]
    ELSE IF ParseDate(req.release_date) = None
    THEN [store |-> g, result |-> Err("InvalidArgument")]
    ELSE LET r == create_game(g, id, req.name, req.description, req.developer_id,
                              req.publisher_id, req.cover_image, req.trailer_url,
                              Unwrap(ParseDate(req.release_date)),
                              CategoriesFromProto(req.categories), req.tags,
                              req.platforms, DecimalFromF64(req.price), t)
         IN  IF r.result.kind = "Err"
             THEN [store |-> r.store, result |-> Err("Internal")]
             ELSE r

(***************************************************************************)
(* gateway-service main.rs: the rate limiter                               *)
(***************************************************************************)
RateLimit == 2         \* the limit the middleware passes, scaled down
RateWindow == 2        \* the window the middleware passes, in ticks of the clock
MaxInstant == 3        \* readings 0..MaxInstant of the gateway's clock

\* the peer addresses of the clients; "unknown" stands for a request without one
Ips == {"10.0.0.1", "unknown"}

\* RateLimiter::new(): an empty map
NoRequests == [ip \in {} |-> <<>>]

NoneAdmitted == [ip \in Ips |-> <<>>]

\* timestamps.retain(|&t| now.duration_since(t) < window)
Retain(timestamps, instant, window) ==
    LET Recent(t) == instant - t < window
    IN  SelectSeq(timestamps, Recent)

\* check_rate_limit pushing the instant before it compares the length
check_rate_limit_pushes_first(reqs, ip, limit, window, instant) ==
    LET timestamps == IF ip \in DOMAIN reqs THEN reqs[ip] ELSE <<>>
        retained == Append(Retain(timestamps, instant, window), instant)
    IN  [requests |-> [i \in DOMAIN reqs \cup {ip} |-> IF i = ip THEN retained ELSE reqs[i]],
         result |-> Len(retained) <= limit]

\* check_rate_limit under the lock of the map; instant is its Instant::now()
check_rate_limit(reqs, ip, limit, window, instant) ==
    LET timestamps == IF ip \in DOMAIN reqs THEN reqs[ip] ELSE <<>>   \* or_insert_with(Vec::new)
        retained == Retain(timestamps, instant, window)
        admit == ~(Len(retained) >= limit)
        kept == IF admit THEN Append(retained, instant) ELSE retained
    IN  [requests |-> [i \in DOMAIN reqs \cup {ip} |-> IF i = ip THEN kept ELSE reqs[i]],
         result |-> admit]

(***************************************************************************)
(* The requests                                                            *)
(* A call is [op, id, arg, t]: the db.rs function, the game id it targets, *)
(* its other arguments, and the reading of Utc::now() it took when it      *)
(* started (create_game, update_game, delete_game).                        *)
(***************************************************************************)
Idle == [op |-> "idle", id |-> 0, arg |-> None, t |-> 0]

Call(op, id, arg) == [op |-> op, id |-> id, arg |-> arg, t |-> 0]

\* the calls of operation op on game id that are in flight
InFlight(op, id) == {s \in Slots : calls[s].op = op /\ calls[s].id = id}

Stored(id) == id \in DOMAIN games

\* the bounds of the model on the calls a client may still issue
Admissible(c) ==
    CASE c.op \in {"create_game", "create_game_request"} ->
            Cardinality(DOMAIN games)
              + Cardinality({s \in Slots : calls[s].op \in {"create_game", "create_game_request"}})
                < MaxGames
      [] c.op = "update_game_rating" ->
            Stored(c.id) => games[c.id].rating_count + Cardinality(InFlight(c.op, c.id)) < MaxRatings
      [] c.op = "increment_purchase_count" ->
            Stored(c.id) => games[c.id].purchase_count + Cardinality(InFlight(c.op, c.id)) < MaxPurchases
      [] c.op = "update_game" ->
            applied[c.id].updates + Cardinality(InFlight(c.op, c.id)) < MaxUpdates
      [] c.op = "add_screenshot" ->
            Stored(c.id) => Len(games[c.id].screenshots) + Cardinality(InFlight(c.op, c.id)) < MaxShots
      [] OTHER -> TRUE

\* ratings, sum, out_of_range: how many ratings were applied to the live row, their
\*   sum, and how many of them lay outside [0, 5]
\* purchases: how many purchases were applied to the live row
\* updates: how many update_game calls were executed on the id
\* deleted: a delete_game call on the id returned true
NoCalls ==
    [id \in GameIds |-> [ratings |-> 0, sum |-> 0, out_of_range |-> 0,
                         purchases |-> 0, updates |-> 0, deleted |-> FALSE]]

ValidRating(v) == 0 <= v /\ v <= 5 * One

Init ==
    /\ games = <<>>             \* the empty table
    /\ calls = [s \in Slots |-> Idle]
    /\ now = 0
    /\ last = [op |-> "none", id |-> 0, arg |-> None, result |-> Ok(Unit)]
    /\ applied = NoCalls
    /\ raced = {}
    /\ requests = NoRequests
    /\ admitted = NoneAdmitted

\* the functions that start with let now = Utc::now()
ReadsClock ==
    {"create_game", "create_game_request", "grpc_create_game", "update_game", "delete_game"}

\* A request arrives in a free slot: the function starts and reads Utc::now()
Issue(s, c) ==
    /\ calls[s].op = "idle"
    /\ Admissible(c)
    /\ calls' = [calls EXCEPT ![s] = [c EXCEPT !.t = IF c.op \in ReadsClock THEN now ELSE 0]]
    /\ UNCHANGED <<games, now, last, applied, raced, requests, admitted>>

\* time passes
Tick ==
    /\ now < MaxTime
    /\ now' = now + 1
    /\ UNCHANGED <<games, calls, last, applied, raced, requests, admitted>>

\* the call of slot s returns r: the table becomes r.store
Return(s, r) ==
    /\ games' = r.store
    /\ last' = [op |-> calls[s].op, id |-> calls[s].id, arg |-> calls[s].arg,
                result |-> r.result]
    /\ calls' = [calls EXCEPT ![s] = Idle]
    /\ UNCHANGED <<now, requests, admitted>>

\* op executed on a live row while another call of op on that id was in flight
Raced(s) ==
    IF Live(games, calls[s].id) /\ InFlight(calls[s].op, calls[s].id) # {s}
    THEN raced \cup {calls[s].op}
    ELSE raced

CreateGame(s) ==
    /\ calls[s].op = "create_game"
    /\ LET d == calls[s].arg
       IN  Return(s, create_game(games, NewId(games), d.name, d.description,
                                 d.developer_id, d.publisher_id, d.cover_image,
                                 d.trailer_url, d.release_date, d.categories,
                                 d.tags, d.platforms, d.price, calls[s].t))
    /\ UNCHANGED <<applied, raced>>

UpdateGame(s) ==
    /\ calls[s].op = "update_game"
    /\ Return(s, update_game(games, calls[s].id, calls[s].arg, calls[s].t))
    /\ applied' = [applied EXCEPT ![calls[s].id].updates = @ + 1]
    /\ UNCHANGED raced

DeleteGame(s) ==
    /\ calls[s].op = "delete_game"
    /\ Return(s, delete_game(games, calls[s].id, calls[s].arg, calls[s].t))
    /\ applied' = [applied EXCEPT ![calls[s].id].deleted = @ \/ (last'.result = Ok(TRUE))]
    /\ UNCHANGED raced

UpdateGameRating(s) ==
    /\ calls[s].op = "update_game_rating"
    /\ Return(s, update_game_rating(games, calls[s].id, calls[s].arg, now))
    /\ applied' = IF Live(games, calls[s].id)
                  THEN [applied EXCEPT ![calls[s].id].ratings = @ + 1,
                                       ![calls[s].id].sum = @ + calls[s].arg,
                                       ![calls[s].id].out_of_range =
                                           IF ValidRating(calls[s].arg) THEN @ ELSE @ + 1]
                  ELSE applied
    /\ raced' = Raced(s)

IncrementPurchaseCount(s) ==
    /\ calls[s].op = "increment_purchase_count"
    /\ Return(s, increment_purchase_count(games, calls[s].id, now))
    /\ applied' = IF Live(games, calls[s].id)
                  THEN [applied EXCEPT ![calls[s].id].purchases = @ + 1]
                  ELSE applied
    /\ raced' = Raced(s)

AddScreenshot(s) ==
    /\ calls[s].op = "add_screenshot"
    /\ Return(s, add_screenshot(games, calls[s].id, calls[s].arg, now))
    /\ UNCHANGED <<applied, raced>>

RemoveScreenshot(s) ==
    /\ calls[s].op = "remove_screenshot"
    /\ Return(s, remove_screenshot(games, calls[s].id, calls[s].arg, now))
    /\ UNCHANGED <<applied, raced>>

\* a CreateGame request served by GameServiceImpl::create_game of main.rs
CreateGameRequest(s) ==
    /\ calls[s].op = "create_game_request"
    /\ Return(s, GameServiceImpl_create_game(games, NewId(games), calls[s].arg, calls[s].t))
    /\ UNCHANGED <<applied, raced>>

\* the LIMIT and the OFFSET parameter of the statement the call c runs
StoreLimit(c) ==
    CASE c.op = "list_games" -> ListLimit(c.arg)
      [] c.op = "get_games_by_category" -> c.arg.limit
      [] c.op = "get_popular_games" -> c.arg

StoreOffset(c) ==
    CASE c.op = "list_games" -> ListOffset(c.arg)
      [] c.op = "get_games_by_category" -> c.arg.offset
      [] c.op = "get_popular_games" -> 0

\* GameServiceImpl::list_games up to the first statement of db::list_games: a
\* malformed developer_id is refused, a failed statement is an internal error,
\* and otherwise the call goes on with the page it fetched
ListGamesPage(s) ==
    /\ calls[s].op = "list_games"
    /\ LET req == calls[s].arg
       IN  IF ListRejects(req)
           THEN Return(s, [store |-> games, result |-> Err("InvalidArgument")])
           ELSE \E r \in list_games_page(games, ListFilter(req), ListLimit(req), ListOffset(req)) :
                   IF r.kind = "Err"
                   THEN Return(s, [store |-> games, result |-> Err("Internal")])
                   ELSE /\ calls' = [calls EXCEPT ![s].op = "list_games_total",
                                                  ![s].arg = [req |-> req, games |-> r.value]]
                        /\ UNCHANGED <<games, now, last, requests, admitted>>
    /\ UNCHANGED <<applied, raced>>

\* the second statement of db::list_games and the response of the handler
ListGamesTotal(s) ==
    /\ calls[s].op = "list_games_total"
    /\ LET req == calls[s].arg.req
           total == list_games_total(games, ListFilter(req))
       IN  \E response \in ListResponses(req, calls[s].arg.games, total) :
               /\ games' = games
               /\ last' = [op |-> "list_games", id |-> 0, arg |-> req, result |-> response]
               /\ calls' = [calls EXCEPT ![s] = Idle]
    /\ UNCHANGED <<now, applied, raced, requests, admitted>>

\* a call of get_games_by_category; its argument is [category, limit, offset]
GetGamesByCategory(s) ==
    /\ calls[s].op = "get_games_by_category"
    /\ \E r \in get_games_by_category(games, calls[s].arg.category, calls[s].arg.limit,
                                      calls[s].arg.offset) :
          Return(s, [store |-> games, result |-> r])
    /\ UNCHANGED <<applied, raced>>

\* a call of get_popular_games; its argument is the limit
GetPopularGames(s) ==
    /\ calls[s].op = "get_popular_games"
    /\ \E r \in get_popular_games(games, calls[s].arg) :
          Return(s, [store |-> games, result |-> r])
    /\ UNCHANGED <<applied, raced>>

(***************************************************************************)
(* The requests the clients send                                           *)
(***************************************************************************)
Developers == {"dev1", "dev2"}

Draft(developer_id, name, categories, price) ==
    [name |-> name, description |-> "about", developer_id |-> developer_id,
     publisher_id |-> None, cover_image |-> Some("cover.png"), trailer_url |-> None,
     release_date |-> 0, categories |-> categories, tags |-> <<"solo">>,
     platforms |-> <<"pc">>, price |-> price]

NoPatch ==
    [name |-> None, description |-> None, price |-> None, cover_image |-> None,
     trailer_url |-> None, status |-> None, categories |-> None, tags |-> None,
     platforms |-> None, screenshots |-> None]

\* ratings: 0.00, 0.01 and, out of range, 6.00
Ratings == {0, 1, 6 * One}

TheDraft == Draft("dev1", <<"chess">>, <<"Strategy">>, 10 * One)

\* purchases of one game, racing each other and its deletion
PurchaseCalls ==
    {Call("create_game", 0, TheDraft),
     Call("increment_purchase_count", 1, None),
     Call("delete_game", 1, "dev1")}

NextPurchases ==
    \/ \E s \in Slots, c \in PurchaseCalls : Issue(s, c)
    \/ \E s \in Slots : CreateGame(s)
    \/ \E s \in Slots : IncrementPurchaseCount(s)
    \/ \E s \in Slots : DeleteGame(s)

SpecPurchases == Init /\ [][NextPurchases]_vars

\* ratings of one game, racing each other and its deletion
RatingCalls ==
    {Call("create_game", 0, TheDraft), Call("delete_game", 1, "dev1")}
    \cup {Call("update_game_rating", 1, v) : v \in Ratings}

NextRatings ==
    \/ \E s \in Slots, c \in RatingCalls : Issue(s, c)
    \/ \E s \in Slots : CreateGame(s)
    \/ \E s \in Slots : UpdateGameRating(s)
    \/ \E s \in Slots : DeleteGame(s)

SpecRatings == Init /\ [][NextRatings]_vars

\* the life of one game: created, patched and deleted by either developer, the
\* requests overlapping (the clock stands still; SpecSerial lets it advance)
Released ==
    [NoPatch EXCEPT !.name = Some(<<"go">>), !.price = Some(20 * One),
                    !.status = Some("Published")]
Unset == [NoPatch EXCEPT !.status = Some("Unspecified")]

LifeCalls ==
    {Call("create_game", 0, TheDraft)}
    \cup {Call("update_game", 1, p) : p \in {NoPatch, Released, Unset}}
    \cup {Call("delete_game", 1, d) : d \in Developers}

Next ==
    \/ \E s \in Slots, c \in LifeCalls : Issue(s, c)
    \/ \E s \in Slots : CreateGame(s)
    \/ \E s \in Slots : UpdateGame(s)
    \/ \E s \in Slots : DeleteGame(s)

Spec == Init /\ [][Next]_vars

\* every operation of the store on one game, the requests served one at a time
SerialCalls ==
    {Call("create_game", 0, TheDraft),
     Call("update_game", 1, Released),
     Call("update_game_rating", 1, 5 * One),
     Call("increment_purchase_count", 1, None),
     Call("add_screenshot", 1, "a.png"),
     Call("remove_screenshot", 1, "a.png"),
     Call("delete_game", 1, "dev1")}

NextSerial ==
    \/ \E c \in SerialCalls : Issue(1, c)
    \/ CreateGame(1)
    \/ UpdateGame(1)
    \/ DeleteGame(1)
    \/ UpdateGameRating(1)
    \/ IncrementPurchaseCount(1)
    \/ AddScreenshot(1)
    \/ RemoveScreenshot(1)
    \/ Tick

SpecSerial == Init /\ [][NextSerial]_vars

\* patches of a game of a table of two, the requests served one at a time
FullPatch ==
    [name |-> Some(<<"go">>), description |-> Some("new"), price |-> Some(20 * One),
     cover_image |-> Some("new.png"), trailer_url |-> Some("new.mp4"),
     status |-> Some("Published"), categories |-> Some(<<"Action", "Rpg">>),
     tags |-> Some(<<"duo">>), platforms |-> Some(<<"mac">>),
     screenshots |-> Some(<<"b.png">>)]

\* the patch that sets field f alone
Single(f) == [k \in PatchFields |-> IF k = f THEN FullPatch[k] ELSE None]

Patches ==
    {NoPatch, FullPatch, Unset, [NoPatch EXCEPT !.categories = Some(<<"Unspecified">>)]}
    \cup {Single(f) : f \in PatchFields}

PatchCalls == {Call("update_game", 1, p) : p \in Patches}

\* a table the store reaches: game 1 rated twice (4.00, 5.00), bought and
\* illustrated; game 2 of another developer, live or soft-deleted
Seeded ==
    LET d1 == [TheDraft EXCEPT !.publisher_id = Some("pub1"), !.trailer_url = Some("old.mp4")]
        d2 == Draft("dev2", <<"go">>, <<"Puzzle">>, 5 * One)
        a == create_game(<<>>, 1, d1.name, d1.description, d1.developer_id, d1.publisher_id,
                         d1.cover_image, d1.trailer_url, d1.release_date, d1.categories,
                         d1.tags, d1.platforms, d1.price, 0).store
        b == create_game(a, 2, d2.name, d2.description, d2.developer_id, d2.publisher_id,
                         d2.cover_image, d2.trailer_url, d2.release_date, d2.categories,
                         d2.tags, d2.platforms, d2.price, 0).store
        c == update_game_rating(b, 1, 4 * One, 0).store
        d == update_game_rating(c, 1, 5 * One, 0).store
        e == increment_purchase_count(d, 1, 0).store
    IN  add_screenshot(e, 1, "a.png", 0).store

InitPatch ==
    /\ games \in {Seeded, delete_game(Seeded, 2, "dev2", 0).store}
    /\ calls = [s \in Slots |-> Idle]
    /\ now = 0
    /\ last = [op |-> "none", id |-> 0, arg |-> None, result |-> Ok(Unit)]
    /\ applied = [NoCalls EXCEPT ![1].ratings = 2, ![1].sum = 9 * One, ![1].purchases = 1,
                                 ![2].deleted = ~Live(games, 2)]
    /\ raced = {}
    /\ requests = NoRequests
    /\ admitted = NoneAdmitted

NextPatch ==
    \/ \E c \in PatchCalls : Issue(1, c)
    \/ UpdateGame(1)
    \/ Tick

SpecPatch == InitPatch /\ [][NextPatch]_vars

\* one read of a stored catalog: a list_games request, or a call of one of the
\* two views, on a table of two games
ListRequest(developer_id, categories, min_price, max_price, status, search_query, page_size, page_token) ==
    [page_size |-> page_size, page_token |-> page_token, developer_id |-> developer_id,
     categories |-> categories, min_price |-> min_price, max_price |-> max_price,
     status |-> status, search_query |-> search_query]

\* every combination of the six dimensions, absent or present, in one window
FilterRequests ==
    {ListRequest(d, c, lo, hi, st, q, 100, <<>>) :
        d \in {"", "dev1"}, c \in {<<>>, <<3>>, <<1, 8>>},
        lo \in {None, Some(10 * One)}, hi \in {None, Some(10 * One)},
        st \in {0, 1, 3}, q \in {<<>>, <<"chess">>}}

PageSizes == {-1, 0, 1, 2, 101}

PageTokens ==
    {<<>>, <<"1">>, <<"2">>, <<"x">>, <<"-", "5">>,
     <<"2", "1", "4", "7", "4", "8", "3", "6", "4", "7">>}

\* two filters in every window
WindowRequests ==
    {ListRequest(d, <<>>, None, None, 0, <<>>, size, token) :
        d \in {"", "dev1"}, size \in PageSizes, token \in PageTokens}

\* a developer_id that is no UUID, categories outside 1..8, an unknown status
MalformedRequests ==
    {ListRequest("nobody", <<>>, None, None, 0, <<>>, 100, <<>>),
     ListRequest("", <<0>>, None, None, 0, <<>>, 100, <<>>),
     ListRequest("", <<9, 3>>, None, None, 0, <<>>, 100, <<>>),
     ListRequest("", <<>>, None, None, 7, <<>>, 100, <<>>)}

ListCalls ==
    {Call("list_games", 0, req) : req \in FilterRequests \cup WindowRequests \cup MalformedRequests}
    \cup {Call("get_games_by_category", 0, [category |-> c, limit |-> l, offset |-> o]) :
            c \in {"Strategy", "Unspecified"}, l \in {-1, 0, 1, 100, 101}, o \in {0, 1}}
    \cup {Call("get_popular_games", 0, l) : l \in {-1, 0, 1, 100, 101}}

\* the tables of two games the store reaches: the second game of either
\* developer, created with the first or after it, released or not, and one of
\* the two deleted or none
Catalogs ==
    LET d1 == TheDraft
        second == {Draft("dev2", <<"go">>, <<"Puzzle">>, 5 * One),
                   Draft("dev1", <<"chess", "go">>, <<"Strategy", "Action">>, 20 * One)}
        one == create_game(<<>>, 1, d1.name, d1.description, d1.developer_id, d1.publisher_id,
                           d1.cover_image, d1.trailer_url, d1.release_date, d1.categories,
                           d1.tags, d1.platforms, d1.price, 0).store
        two == {create_game(one, 2, d2.name, d2.description, d2.developer_id, d2.publisher_id,
                            d2.cover_image, d2.trailer_url, d2.release_date, d2.categories,
                            d2.tags, d2.platforms, d2.price, t).store :
                    d2 \in second, t \in 0..MaxTime}
        released == two \cup {update_game(g, 2, [NoPatch EXCEPT !.status = Some("Published")],
                                          MaxTime).store : g \in two}
    IN  released \cup {delete_game(g, id, g[id].developer_id, MaxTime).store :
                          g \in released, id \in 1..2}

InitList ==
    /\ games \in Catalogs
    /\ calls = [s \in Slots |-> Idle]
    /\ now = MaxTime
    /\ last = [op |-> "none", id |-> 0, arg |-> None, result |-> Ok(Unit)]
    /\ applied = [id \in GameIds |->
                    [NoCalls[id] EXCEPT !.deleted = id \in DOMAIN games /\ ~Live(games, id),
                                        !.updates = IF id \in DOMAIN games
                                                       /\ games[id].status = "published"
                                                    THEN 1 ELSE 0]]
    /\ raced = {}
    /\ requests = NoRequests
    /\ admitted = NoneAdmitted

NextList ==
    \/ \E c \in ListCalls : last.op = "none" /\ Issue(1, c)
    \/ ListGamesPage(1)
    \/ ListGamesTotal(1)
    \/ GetGamesByCategory(1)
    \/ GetPopularGames(1)

SpecList == InitList /\ [][NextList]_vars

\* a list_games request racing the creation and the deletion of games
Unfiltered == ListRequest("", <<>>, None, None, 0, <<>>, 100, <<>>)

ListRaceCalls ==
    {Call("create_game", 0, TheDraft),
     Call("delete_game", 1, "dev1"),
     Call("list_games", 0, Unfiltered)}

NextListRace ==
    \/ \E s \in Slots, c \in ListRaceCalls : Issue(s, c)
    \/ \E s \in Slots : CreateGame(s)
    \/ \E s \in Slots : DeleteGame(s)
    \/ \E s \in Slots : ListGamesPage(s)
    \/ \E s \in Slots : ListGamesTotal(s)

SpecListRace == Init /\ [][NextListRace]_vars

\* create requests, well-formed and not, and patches of the created games,
\* served one at a time
CreateRequest ==
    [name |-> <<"chess">>, description |-> "about", developer_id |-> "dev1",
     publisher_id |-> None, cover_image |-> Some("cover.png"), trailer_url |-> None,
     release_date |-> "2024-01-01", categories |-> <<3>>, tags |-> <<"solo">>,
     platforms |-> <<"pc">>, price |-> Some(10 * F64Unit)]

CreateRequests ==
    {CreateRequest,
     [CreateRequest EXCEPT !.categories = <<>>],
     [CreateRequest EXCEPT !.categories = <<0>>],
     [CreateRequest EXCEPT !.categories = <<9, 3>>],
     [CreateRequest EXCEPT !.price = Some(-F64Unit)],
     [CreateRequest EXCEPT !.price = Some(1004)],
     [CreateRequest EXCEPT !.price = NaN],
     [CreateRequest EXCEPT !.developer_id = "nobody"],
     [CreateRequest EXCEPT !.release_date = "soon"],
     [CreateRequest EXCEPT !.cover_image = None]}

CreatePatches ==
    {Released,
     [NoPatch EXCEPT !.categories = Some(<<>>)],
     [NoPatch EXCEPT !.categories = Some(<<"Unspecified">>)],
     [NoPatch EXCEPT !.price = Some(-One)]}

CreateCalls ==
    {Call("create_game_request", 0, req) : req \in CreateRequests}
    \cup {Call("update_game", 1, p) : p \in CreatePatches}

NextCreate ==
    \/ \E c \in CreateCalls : Issue(1, c)
    \/ CreateGameRequest(1)
    \/ UpdateGame(1)
    \/ Tick

SpecCreate == Init /\ [][NextCreate]_vars

(***************************************************************************)
(* Properties                                                              *)
(***************************************************************************)
\* the step in which the call of slot s returns
Completed(s) == calls[s].op # "idle" /\ calls'[s].op = "idle"

IsErr(r, e) == r.kind = "Err" /\ r.value = e

\* the mean of the ratings applied to id, recomputed from the history and
\* rounded as the average_rating column rounds
MeanOfRatings(id) ==
    IF applied[id].ratings = 0 THEN 0
    ELSE RoundDiv(applied[id].sum, applied[id].ratings)

\* C1: whatever the interleaving of the purchase calls on a live game, its
\* purchase_count is the number of increment_purchase_count calls completed on it:
\* no increment is lost.
PurchasesNeverLost ==
    \A id \in DOMAIN games :
        Live(games, id) => games[id].purchase_count = applied[id].purchases

\* C1 witness: MaxPurchases purchases of a live game completed, two of them
\* in flight together.
PurchasesRaced ==
    \E id \in DOMAIN games :
        /\ Live(games, id)
        /\ applied[id].purchases = MaxPurchases
        /\ "increment_purchase_count" \in raced

\* C2: after ratings in [0, 5] applied one at a time to a live game, rating_count
\* is their number and average_rating is their arithmetic mean.
SequentialMeanExact ==
    \A id \in DOMAIN games :
        (/\ Live(games, id)
         /\ "update_game_rating" \notin raced
         /\ applied[id].out_of_range = 0)
        => /\ games[id].rating_count = applied[id].ratings
           /\ games[id].average_rating = MeanOfRatings(id)

\* C3: after concurrent update_game_rating calls on a live game have all
\* completed, rating_count has grown by their number and average_rating is the
\* mean of all the ratings applied.
ConcurrentRatingsExact ==
    \A id \in DOMAIN games :
        (/\ Live(games, id)
         /\ "update_game_rating" \in raced
         /\ InFlight("update_game_rating", id) = {}
         /\ applied[id].out_of_range = 0)
        => /\ games[id].rating_count = applied[id].ratings
           /\ games[id].average_rating = MeanOfRatings(id)

\* C4: an update_game_rating call with a value outside [0, 5] returns
\* InvalidArgument and leaves the table unchanged.
RatingRangeEnforced ==
    [][\A s \in Slots :
          (/\ Completed(s)
           /\ calls[s].op = "update_game_rating"
           /\ ~ValidRating(calls[s].arg))
          => /\ IsErr(last'.result, "InvalidArgument")
             /\ games' = games]_vars

\* C5: update_game_rating, increment_purchase_count, add_screenshot and
\* remove_screenshot return an error, not Ok, when the id has no live row.
AggregateOps ==
    {"update_game_rating", "increment_purchase_count", "add_screenshot", "remove_screenshot"}

AggregatesReportNotFound ==
    [][\A s \in Slots :
          (/\ Completed(s)
           /\ calls[s].op \in AggregateOps
           /\ ~Live(games, calls[s].id))
          => last'.result.kind = "Err"]_vars

\* the filters of list_games the draft and its patched row pass: every
\* dimension absent or one the row satisfies
Filters ==
    {[developer_id |-> d, categories |-> c, min_price |-> lo, max_price |-> hi,
      status |-> st, search_query |-> q] :
        d \in {None, Some("dev1")}, c \in {None, Some(<<"Strategy", "Action">>)},
        lo \in {None, Some(0)}, hi \in {None, Some(20 * One)},
        st \in {None, Some("Draft"), Some("Published")},
        q \in {None, Some(<<"chess">>), Some(<<"go">>)}}

\* some possible result of a query holds the row of id
InResult(results, id) ==
    \E r \in results : r.kind = "Ok" /\ \E i \in 1..Len(r.value) : r.value[i].id = id

Deleted(id) == Stored(id) /\ games[id].deleted_at # None

\* C6: once delete_game(id, owner) has returned true, get_game_by_id(id) returns
\* None, no result of list_games, get_all_games, get_games_by_category or
\* get_popular_games holds id, and delete_game(id, owner) returns false.
SoftDeleteInvisible ==
    \A id \in GameIds :
        applied[id].deleted =>
            /\ get_game_by_id(games, id) = None
            /\ \A f \in Filters : ~InResult(list_games_page(games, f, 100, 0), id)
            /\ ~InResult(get_all_games(games), id)
            /\ \A c \in DbGameCategory : ~InResult(get_games_by_category(games, c, 100, 0), id)
            /\ ~InResult(get_popular_games(games, 100), id)
            /\ \A d \in Developers : delete_game(games, id, d, now).result = Ok(FALSE)

\* C6 witness: the owner's second delete_game of a deleted game has returned
\* false, while another game is listed.
DeletedTwice ==
    /\ last.op = "delete_game"
    /\ Deleted(last.id)
    /\ applied[last.id].deleted
    /\ last.arg = games[last.id].developer_id
    /\ last.result = Ok(FALSE)
    /\ \E other \in DOMAIN games : InResult(get_all_games(games), other)

\* C7: no operation changes the record of a soft-deleted game, and the record
\* stays in the table.
DeletedRowsFrozen ==
    [][\A id \in DOMAIN games :
          games[id].deleted_at # None => id \in DOMAIN games' /\ games'[id] = games[id]]_vars

\* C7 witness: update_game was executed on a soft-deleted game, later than its
\* deletion.
DeletedRowPatched ==
    /\ last.op = "update_game"
    /\ Deleted(last.id)
    /\ games[last.id].deleted_at # Some(now)

\* C8: delete_game returns false and changes nothing unless a live row has that
\* id and that developer_id, and a live game is deleted only by a call of its
\* developer.
DeleteOwnerOnly ==
    [][/\ \A s \in Slots :
            (/\ Completed(s)
             /\ calls[s].op = "delete_game"
             /\ ~(Live(games, calls[s].id) /\ games[calls[s].id].developer_id = calls[s].arg))
            => /\ last'.result = Ok(FALSE)
               /\ games' = games
       /\ \A id \in DOMAIN games :
            (Live(games, id) /\ ~Live(games', id))
            => \E s \in Slots : /\ Completed(s)
                                /\ calls[s].op = "delete_game"
                                /\ calls[s].id = id
                                /\ calls[s].arg = games[id].developer_id]_vars

\* C8 witness: delete_game by another developer returned false on a live game.
DeleteRefused ==
    /\ last.op = "delete_game"
    /\ Live(games, last.id)
    /\ last.arg # games[last.id].developer_id
    /\ last.result = Ok(FALSE)

\* the value patch field f, set to Some(v), is stored as
StoredAs(f, v) ==
    CASE f = "status" -> StatusName(v)
      [] f = "categories" -> CategoryStrings(v)
      [] f = "trailer_url" -> Some(v)
      [] OTHER -> v

\* the columns update_game has no parameter for
FrameFields ==
    {"id", "developer_id", "publisher_id", "release_date", "created_at",
     "deleted_at", "rating_count", "average_rating", "purchase_count"}

\* the step changes no column of row id that update_game has no parameter for,
\* and no other row
Framed(id) ==
    /\ DOMAIN games' = DOMAIN games
    /\ \A other \in DOMAIN games \ {id} : games'[other] = games[other]
    /\ \A f \in FrameFields : games'[id][f] = games[id][f]

\* the step leaves in row id the Some fields of the patch p overwritten and the
\* None fields as they were
Patched(id, p) ==
    \A f \in PatchFields :
        games'[id][f] = IF p[f] # None THEN StoredAs(f, Unwrap(p[f])) ELSE games[id][f]

\* a status or a category of the patch is the Unspecified sentinel
Unstorable(p) ==
    \/ p.status = Some("Unspecified")
    \/ p.categories # None /\ "Unspecified" \in Range(Unwrap(p.categories))

\* C9 as claimed: update_game on a live game overwrites exactly the patch fields
\* that are Some, and changes no other column and no other row.
PatchOverwritesEverySome ==
    [][\A s \in Slots :
          (Completed(s) /\ calls[s].op = "update_game" /\ Live(games, calls[s].id))
          => Framed(calls[s].id) /\ Patched(calls[s].id, calls[s].arg)]_vars

\* C9 as amended: update_game on a live game overwrites exactly the patch fields
\* that are Some and leaves the None fields as stored, provided that no status or
\* category of the patch is Unspecified (a patch with status Unspecified is
\* refused with an error and writes nothing); it never changes the other
\* columns, and it changes no other row.
PatchOverwritesStorableSome ==
    [][\A s \in Slots :
          (Completed(s) /\ calls[s].op = "update_game" /\ Live(games, calls[s].id))
          => /\ Framed(calls[s].id)
             /\ ~Unstorable(calls[s].arg)
                  => last'.result.kind = "Ok" /\ Patched(calls[s].id, calls[s].arg)
             /\ calls[s].arg.status = Some("Unspecified")
                  => last'.result.kind = "Err" /\ games' = games]_vars

\* C9 witness: the full patch was applied to the rated, bought game 1 while
\* game 2 is stored.
FullyPatched ==
    /\ last.op = "update_game"
    /\ last.arg = FullPatch
    /\ last.result.kind = "Ok"
    /\ games[1].name = <<"go">>
    /\ games[1].rating_count = 2
    /\ 2 \in DOMAIN games

\* C10: update_game on an id without a live row returns RowNotFound, which is
\* not the error of a failed statement, and changes nothing.
UpdateMissingNotFound ==
    [][\A s \in Slots :
          (Completed(s) /\ calls[s].op = "update_game" /\ ~Live(games, calls[s].id))
          => /\ IsErr(last'.result, "RowNotFound")
             /\ games' = games]_vars

\* C10 witness: a patch that a live row rejects with a database error was
\* answered RowNotFound on a soft-deleted game.
UpdateOfDeletedNotFound ==
    /\ last.op = "update_game"
    /\ last.arg = Unset
    /\ Deleted(last.id)
    /\ IsErr(last.result, "RowNotFound")

\* the list_games request of a call in flight
Request(c) == IF c.op = "list_games_total" THEN c.arg.req ELSE c.arg

\* the step in which the list_games call of slot s returns
ListCompleted(s) == Completed(s) /\ calls[s].op \in {"list_games", "list_games_total"}

\* the step in which the call of slot s runs the statement of op
Executes(s, op) == calls[s].op = op /\ calls'[s] # calls[s]

\* the owner id is a UUID and the categories are of the closed vocabulary
WellFormed(req) ==
    /\ req.developer_id = "" \/ req.developer_id \in Uuids
    /\ \A i \in 1..Len(req.categories) : req.categories[i] \in 1..8

\* the row is live and satisfies every dimension present in the request, read
\* as the response shows the row (its categories and status as wire values)
Satisfies(row, req) ==
    /\ row.deleted_at = None
    /\ req.developer_id # "" => row.developer_id = req.developer_id
    /\ req.categories # <<>> =>
          {CategoryToProto(CategoryOfLabel(l)) : l \in Range(row.categories)}
              \cap Range(req.categories) # {}
    /\ req.min_price # None => row.price * 100 >= Unwrap(req.min_price) * One
    /\ req.max_price # None => row.price * 100 <= Unwrap(req.max_price) * One
    /\ req.status # 0 => StatusToProto(StatusOfLabel(row.status)) = req.status
    /\ req.search_query # <<>> => TsMatch(row.name, req.search_query)

Matching(g, req) == {r \in Rows(g) : Satisfies(r, req)}

\* C11: for a well-formed request with offset 0 and a limit not below the number
\* of matching rows, list_games returns exactly the live rows that satisfy every
\* present dimension (absent dimensions unconstrained, price bounds inclusive,
\* categories by overlap), each once, and total_count is the number of items.
FilterConjunction ==
    [][\A s \in Slots :
          (/\ ListCompleted(s)
           /\ WellFormed(Request(calls[s]))
           /\ ListOffset(Request(calls[s])) = 0
           /\ Cardinality(Matching(games, Request(calls[s]))) <= ListLimit(Request(calls[s])))
          => /\ last'.result.kind = "Ok"
             /\ Range(last'.result.value.games) = Matching(games, Request(calls[s]))
             /\ Len(last'.result.value.games) = Cardinality(Matching(games, Request(calls[s])))
             /\ last'.result.value.total_count = Len(last'.result.value.games)]_vars

\* C11 witness: a request with all six dimensions present, both price bounds
\* met with equality, returned game 1 alone while game 2 is live.
AllDimensionsFiltered ==
    /\ last.op = "list_games"
    /\ last.arg = ListRequest("dev1", <<3>>, Some(10 * One), Some(10 * One), 1, <<"chess">>, 100, <<>>)
    /\ last.result.kind = "Ok"
    /\ Len(last.result.value.games) = 1
    /\ last.result.value.games[1].id = 1
    /\ Live(games, 2)

\* C12: the total list_games returns is the number of live rows matching the
\* filter, whatever the window: the same for every limit and offset.
TotalIsTrueCount ==
    [][\A s \in Slots :
          (ListCompleted(s) /\ last'.result.kind = "Ok")
          => last'.result.value.total_count = Cardinality(Matching(games, Request(calls[s])))]_vars

\* C12 witness: a call whose window lies beyond the matching rows returned no
\* item and the total of one, the other row of the table being deleted.
TotalBeyondWindow ==
    /\ last.op = "list_games"
    /\ last.result.kind = "Ok"
    /\ last.result.value.total_count = 1
    /\ Len(last.result.value.games) = 0
    /\ \E id \in DOMAIN games : Deleted(id)

\* C13: the page and the total of one list_games call are of one snapshot: with
\* offset 0 and a limit not below the total, the number of items is the total,
\* whatever other requests do meanwhile.
PageMatchesTotal ==
    [][\A s \in Slots :
          (/\ ListCompleted(s)
           /\ last'.result.kind = "Ok"
           /\ ListOffset(Request(calls[s])) = 0
           /\ last'.result.value.total_count <= ListLimit(Request(calls[s])))
          => Len(last'.result.value.games) = last'.result.value.total_count]_vars

\* C14: for a fixed table, the pages at offsets 0, L, 2L joined in order are the
\* full result, each matching row once, by created_at descending, and the order
\* of the rows is determined (ties by id).
PagesConcatenate ==
    \A L \in 1..2 :
        \A p0 \in list_games_page(games, ListFilter(Unfiltered), L, 0),
           p1 \in list_games_page(games, ListFilter(Unfiltered), L, L),
           p2 \in list_games_page(games, ListFilter(Unfiltered), L, 2 * L) :
            LET all == p0.value \o p1.value \o p2.value
            IN  /\ Len(all) = list_games_total(games, ListFilter(Unfiltered))
                /\ Range(all) = Matching(games, Unfiltered)
                /\ \A i, j \in 1..Len(all) : i < j => all[i].created_at >= all[j].created_at
                /\ list_games_page(games, ListFilter(Unfiltered), 100, 0) = {Ok(all)}

\* C15: the limit a list request hands to the store lies in [1, 100], for
\* list_games, get_games_by_category and get_popular_games, and no page has
\* more than 100 items.
ListOps == {"list_games", "get_games_by_category", "get_popular_games"}

LimitsClamped ==
    [][\A s \in Slots :
          (/\ calls[s].op \in ListOps
           /\ Executes(s, calls[s].op)
           /\ ~(calls[s].op = "list_games" /\ ListRejects(calls[s].arg)))
          => /\ StoreLimit(calls[s]) \in 1..100
             /\ (Completed(s) /\ last'.result.kind = "Ok") => Len(last'.result.value) <= 100]_vars

\* C16: whatever the page_token, the offset list_games hands to the store is
\* not negative.
OffsetsNonNegative ==
    [][\A s \in Slots :
          (Executes(s, "list_games") /\ ~ListRejects(calls[s].arg))
          => StoreOffset(calls[s]) >= 0]_vars

\* C17: list_games answers with next_page_token = offset + limit when
\* offset + limit < total_count and with the empty token otherwise, for every
\* offset of the i32 range.
NextPageTokenExact ==
    [][\A s \in Slots :
          (Completed(s) /\ calls[s].op = "list_games_total")
          => LET req == calls[s].arg.req
                 total == list_games_total(games, ListFilter(req))
             IN  /\ last'.result.kind = "Ok"
                 /\ last'.result.value.next_page_token =
                       IF ListOffset(req) < total - ListLimit(req)
                       THEN I32ToString(ListOffset(req) + ListLimit(req))
                       ELSE <<>>]_vars

\* C18: every game create_game returns is stored as returned, with status
\* Draft, rating_count, average_rating and purchase_count 0, no screenshot,
\* deleted_at null, created_at = updated_at, and an id no stored game had.
InsertedAsDraft ==
    [][\A s \in Slots :
          (Completed(s) /\ calls[s].op = "create_game" /\ last'.result.kind = "Ok")
          => LET game == last'.result.value
             IN  /\ StatusOfLabel(game.status) = "Draft"
                 /\ game.rating_count = 0
                 /\ game.average_rating = 0
                 /\ game.purchase_count = 0
                 /\ game.screenshots = <<>>
                 /\ game.deleted_at = None
                 /\ game.created_at = game.updated_at
                 /\ game.id \notin DOMAIN games
                 /\ game.id \in DOMAIN games' /\ games'[game.id] = game]_vars

\* C18 witness: a second game was created, later than the first, which has been
\* bought and released.
SecondGameInserted ==
    /\ last.op = "create_game"
    /\ last.result.kind = "Ok"
    /\ last.result.value.id = 2
    /\ last.result.value.created_at > games[1].created_at
    /\ games[1].purchase_count > 0
    /\ games[1].status = "published"

\* C19: every stored game has at least one category: a create request with no
\* category is refused and stores nothing, and no update leaves a game without
\* a category.
CategoriesNeverEmpty ==
    [][/\ \A id \in DOMAIN games' : games'[id].categories # <<>>
       /\ \A s \in Slots :
            (Completed(s) /\ calls[s].op = "create_game_request" /\ calls[s].arg.categories = <<>>)
            => last'.result.kind = "Err" /\ games' = games]_vars

\* the request or patch carries a negative price or a category outside the
\* closed vocabulary
OutsideDomain(c) ==
    CASE c.op = "create_game_request" ->
            \/ c.arg.price # NaN /\ Unwrap(c.arg.price) < 0
            \/ \E i \in 1..Len(c.arg.categories) : c.arg.categories[i] \notin 1..8
      [] c.op = "update_game" ->
            \/ c.arg.price # None /\ Unwrap(c.arg.price) < 0
            \/ c.arg.categories # None /\ "Unspecified" \in Range(Unwrap(c.arg.categories))
      [] OTHER -> FALSE

\* C20: every stored game has price >= 0 and categories of the eight real
\* values, and a create or update request with a negative price or a category
\* outside the vocabulary is answered InvalidArgument and changes nothing.
PriceAndVocabularyValidated ==
    [][/\ \A id \in DOMAIN games' :
            /\ games'[id].price >= 0
            /\ Range(games'[id].categories) \subseteq GameCategoryLabels
       /\ \A s \in Slots :
            (Completed(s) /\ OutsideDomain(calls[s]))
            => IsErr(last'.result, "InvalidArgument") /\ games' = games]_vars

(***************************************************************************)
(* Bursts: every mutating operation of the store on the two games of a     *)
(* stored table, the requests of a burst all in flight together and served *)
(* in any order                                                            *)
(***************************************************************************)
\* the tables a burst starts from: empty, or the seeded table with game 2
\* live, soft-deleted or absent
BurstTables ==
    {<<>>,
     Seeded,
     delete_game(Seeded, 2, "dev2", 0).store,
     [id \in {1} |-> Seeded[id]]}

\* the history of the table g
SeededCalls(g) ==
    [id \in GameIds |->
        IF id \in DOMAIN g
        THEN [ratings |-> g[id].rating_count,
              sum |-> g[id].average_rating * g[id].rating_count,
              out_of_range |-> 0,
              purchases |-> g[id].purchase_count,
              updates |-> 0,
              deleted |-> g[id].deleted_at # None]
        ELSE NoCalls[id]]

InitBurst ==
    /\ games \in BurstTables
    /\ calls = [s \in Slots |-> Idle]
    /\ now = 0
    /\ last = [op |-> "none", id |-> 0, arg |-> None, result |-> Ok(Unit)]
    /\ applied = SeededCalls(games)
    /\ raced = {}
    /\ requests = NoRequests
    /\ admitted = NoneAdmitted

\* the two games of the seeded table
BurstIds == DOMAIN Seeded

BurstCalls ==
    {Call("create_game", 0, TheDraft)}
    \cup {Call("update_game", id, p) : id \in BurstIds, p \in {NoPatch, Released, Unset}}
    \cup {Call("delete_game", id, d) : id \in BurstIds, d \in Developers}
    \cup {Call("update_game_rating", id, 5 * One) : id \in BurstIds}
    \cup {Call("increment_purchase_count", id, None) : id \in BurstIds}
    \cup {Call("add_screenshot", id, "b.png") : id \in BurstIds}
    \cup {Call("remove_screenshot", id, "a.png") : id \in BurstIds}

\* the functions of db.rs that write
MutatingOps ==
    {"update_game", "delete_game", "update_game_rating", "increment_purchase_count",
     "add_screenshot", "remove_screenshot"}

\* the statement of the call of slot s is executed
Execute(s) ==
    \/ CreateGame(s)
    \/ UpdateGame(s)
    \/ DeleteGame(s)
    \/ UpdateGameRating(s)
    \/ IncrementPurchaseCount(s)
    \/ AddScreenshot(s)
    \/ RemoveScreenshot(s)

NextBurst ==
    \/ \E s \in Slots, c \in BurstCalls : last.op = "none" /\ Issue(s, c)
    \/ \E s \in Slots : CreateGame(s)
    \/ \E s \in Slots : UpdateGame(s)
    \/ \E s \in Slots : DeleteGame(s)
    \/ \E s \in Slots : UpdateGameRating(s)
    \/ \E s \in Slots : IncrementPurchaseCount(s)
    \/ \E s \in Slots : AddScreenshot(s)
    \/ \E s \in Slots : RemoveScreenshot(s)

SpecBurst == InitBurst /\ [][NextBurst]_vars

\* the four values of the status column
StoredStatuses == {StatusName(st) : st \in DbGameStatus \ {"Unspecified"}}

\* C21: the status of every stored game is one of draft, under_review,
\* published and suspended; a game is a draft right after its creation; and the
\* status of a game changes only in a step of update_game on that game whose
\* patch carries a status: ratings, purchases, screenshots, deletions and
\* patches with status = None leave it as it was.
StatusLifecycle ==
    [][/\ \A id \in DOMAIN games' : games'[id].status \in StoredStatuses
       /\ \A id \in DOMAIN games' \ DOMAIN games : games'[id].status = StatusName("Draft")
       /\ \A id \in DOMAIN games :
            games'[id].status # games[id].status
            => \E s \in Slots :
                  /\ Completed(s)
                  /\ calls[s].op = "update_game"
                  /\ calls[s].id = id
                  /\ calls[s].arg.status # None]_vars

\* a patch with a status has published game 1 after a purchase of the same
\* burst left its status alone, beside the soft-deleted game 2
StatusAdvanced ==
    /\ {1, 2} \subseteq DOMAIN games
    /\ last.op = "update_game"
    /\ last.id = 1
    /\ last.arg = Released
    /\ games[1].status = StatusName("Published")
    /\ games[1].purchase_count = Seeded[1].purchase_count + 1
    /\ games[2].deleted_at # None

\* C22: for every stored game, rating_count = 0 implies average_rating = 0, and
\* average_rating lies in [0, 5].
AverageWithinRange ==
    \A id \in DOMAIN games :
        /\ games[id].rating_count = 0 => games[id].average_rating = 0
        /\ 0 <= games[id].average_rating
        /\ games[id].average_rating <= 5 * One

\* C23: purchase_count and rating_count of every game are >= 0 and never
\* decrease; every increment_purchase_count call that succeeds raises
\* purchase_count by exactly 1, every update_game_rating call that succeeds
\* raises rating_count by exactly 1, and no other operation changes either.
CountersMonotone ==
    [][/\ \A id \in DOMAIN games' :
            games'[id].purchase_count >= 0 /\ games'[id].rating_count >= 0
       /\ \A id \in DOMAIN games :
            /\ games'[id].purchase_count >= games[id].purchase_count
            /\ games'[id].rating_count >= games[id].rating_count
            /\ games'[id].purchase_count # games[id].purchase_count
               => \E s \in Slots :
                     /\ Completed(s)
                     /\ calls[s].op = "increment_purchase_count"
                     /\ calls[s].id = id
            /\ games'[id].rating_count # games[id].rating_count
               => \E s \in Slots :
                     /\ Completed(s)
                     /\ calls[s].op = "update_game_rating"
                     /\ calls[s].id = id
       /\ \A s \in Slots :
            (Completed(s) /\ Stored(calls[s].id) /\ last'.result.kind = "Ok")
            => /\ calls[s].op = "increment_purchase_count"
                  => games'[calls[s].id].purchase_count = games[calls[s].id].purchase_count + 1
               /\ calls[s].op = "update_game_rating"
                  => games'[calls[s].id].rating_count = games[calls[s].id].rating_count + 1]_vars

(***************************************************************************)
(* The screenshots of one game, added and removed one call at a time       *)
(***************************************************************************)
\* the screenshot sequences the game starts with
ShotSeqs ==
    {<<>>,
     <<"a.png">>,
     <<"a.png", "b.png", "a.png">>,
     <<"b.png", "a.png", "c.png", "a.png">>}

InitShots ==
    /\ games \in {update_game(Seeded, 1, [NoPatch EXCEPT !.screenshots = Some(q)], 0).store :
                    q \in ShotSeqs}
    /\ calls = [s \in Slots |-> Idle]
    /\ now = 0
    /\ last = [op |-> "none", id |-> 0, arg |-> None, result |-> Ok(Unit)]
    /\ applied = [SeededCalls(games) EXCEPT ![1].updates = 1]
    /\ raced = {}
    /\ requests = NoRequests
    /\ admitted = NoneAdmitted

ShotCalls ==
    {Call("add_screenshot", 1, url) : url \in {"a.png", "b.png"}}
    \cup {Call("remove_screenshot", 1, url) : url \in {"a.png", "z.png"}}

NextShots ==
    \/ \E c \in ShotCalls : Issue(1, c)
    \/ AddScreenshot(1)
    \/ RemoveScreenshot(1)
    \/ Tick

SpecShots == InitShots /\ [][NextShots]_vars

\* q without its entries equal to url, the others in their order
Without(q, url) ==
    LET Keep(x) == x # url
    IN  SelectSeq(q, Keep)

\* C24: remove_screenshot(id, url) on a live game removes every occurrence of url
\* and keeps the other entries in their order; when url is not in the sequence
\* the call succeeds and the sequence is unchanged; add_screenshot appends url at
\* the end without deduplicating; after a removal no occurrence of url is left.
ScreenshotsEdited ==
    [][\A s \in Slots :
          (Completed(s) /\ Live(games, calls[s].id))
          => LET id == calls[s].id
                 url == calls[s].arg
             IN  /\ calls[s].op = "remove_screenshot"
                    => /\ last'.result = Ok(Unit)
                       /\ games'[id].screenshots = Without(games[id].screenshots, url)
                       /\ url \notin Range(games'[id].screenshots)
                       /\ url \notin Range(games[id].screenshots)
                          => games'[id].screenshots = games[id].screenshots
                 /\ calls[s].op = "add_screenshot"
                    => /\ last'.result = Ok(Unit)
                       /\ games'[id].screenshots = Append(games[id].screenshots, url)]_vars

\* both occurrences of a.png were removed from between the other screenshots
BothOccurrencesRemoved ==
    /\ last.op = "remove_screenshot"
    /\ last.arg = "a.png"
    /\ last.result = Ok(Unit)
    /\ games[1].screenshots = <<"b.png", "c.png">>

(***************************************************************************)
(* A patch of game 1 in flight while its aggregates are updated, the clock *)
(* advancing                                                               *)
(***************************************************************************)
\* patches that leave screenshots as None
RacePatches == {NoPatch, Released, [FullPatch EXCEPT !.screenshots = None]}

\* update_game(1, patch) has started and read Utc::now()
InitRace ==
    /\ games = Seeded
    /\ \E p \in RacePatches :
          calls = [s \in Slots |-> IF s = 1 THEN Call("update_game", 1, p) ELSE Idle]
    /\ now = 0
    /\ last = [op |-> "none", id |-> 0, arg |-> None, result |-> Ok(Unit)]
    /\ applied = SeededCalls(games)
    /\ raced = {}
    /\ requests = NoRequests
    /\ admitted = NoneAdmitted

RaceCalls ==
    {Call("update_game_rating", 1, 5 * One),
     Call("increment_purchase_count", 1, None),
     Call("add_screenshot", 1, "b.png")}

NextRace ==
    \/ \E s \in Slots, c \in RaceCalls : Issue(s, c)
    \/ \E s \in Slots : UpdateGame(s)
    \/ \E s \in Slots : UpdateGameRating(s)
    \/ \E s \in Slots : IncrementPurchaseCount(s)
    \/ \E s \in Slots : AddScreenshot(s)
    \/ Tick

SpecRace == InitRace /\ [][NextRace]_vars

\* the functions that refresh updated_at of a live row
RefreshingOps ==
    {"update_game", "update_game_rating", "increment_purchase_count",
     "add_screenshot", "remove_screenshot"}

\* C25: created_at of a game never changes, every successful mutation of a live
\* game sets updated_at to the time of the mutation (a reading of the clock
\* between the start of the call and its statement), and so updated_at never
\* moves backwards and is never earlier than created_at.
TimestampsAdvance ==
    [][/\ \A id \in DOMAIN games :
            /\ games'[id].created_at = games[id].created_at
            /\ games'[id].updated_at >= games[id].updated_at
            /\ games'[id].updated_at >= games'[id].created_at
       /\ \A s \in Slots :
            (/\ Completed(s)
             /\ calls[s].op \in RefreshingOps
             /\ Live(games, calls[s].id)
             /\ last'.result.kind = "Ok")
            => /\ games'[calls[s].id].updated_at <= now
               /\ games'[calls[s].id].updated_at >=
                    (IF calls[s].op \in ReadsClock THEN calls[s].t ELSE now)]_vars

\* the step changes in row id at most the columns of S and updated_at
OnlyChanges(id, S) ==
    \A f \in DOMAIN games[id] \ (S \cup {"updated_at"}) : games'[id][f] = games[id][f]

\* C27: a patch that leaves screenshots as None and the aggregate updates of the
\* same live game, in any interleaving, never lose each other's effect: the
\* patch writes its fields and keeps the counters, the average and the
\* screenshots it finds; a purchase, a rating and an added screenshot each
\* change their own columns of the row they find and keep every patched field;
\* so the row always holds every purchase and rating applied so far.
NoLostEffects ==
    [][/\ \A s \in Slots :
            (Completed(s) /\ Live(games, calls[s].id))
            => LET id == calls[s].id
               IN  /\ (calls[s].op = "update_game" /\ calls[s].arg.screenshots = None)
                      => /\ last'.result.kind = "Ok"
                         /\ Patched(id, calls[s].arg)
                         /\ OnlyChanges(id, PatchFields \ {"screenshots"})
                   /\ calls[s].op = "increment_purchase_count"
                      => /\ games'[id].purchase_count = games[id].purchase_count + 1
                         /\ OnlyChanges(id, {"purchase_count"})
                   /\ calls[s].op = "update_game_rating"
                      => /\ games'[id].rating_count = games[id].rating_count + 1
                         /\ games'[id].average_rating =
                              RoundDiv(games[id].average_rating * games[id].rating_count
                                         + calls[s].arg,
                                       games[id].rating_count + 1)
                         /\ OnlyChanges(id, {"rating_count", "average_rating"})
                   /\ calls[s].op = "add_screenshot"
                      => /\ games'[id].screenshots = Append(games[id].screenshots, calls[s].arg)
                         /\ OnlyChanges(id, {"screenshots"})
       /\ \A id \in DOMAIN games' :
            games'[id].deleted_at = None
            => /\ games'[id].purchase_count = applied'[id].purchases
               /\ games'[id].rating_count = applied'[id].ratings]_vars

\* the patch that was in flight from the start has returned after a purchase,
\* a rating and a screenshot were applied: the row holds all four effects
PatchAndAggregatesKept ==
    /\ last.op = "update_game"
    /\ last.arg = Released
    /\ last.result.kind = "Ok"
    /\ applied[1].updates = 1
    /\ games[1].name = Unwrap(Released.name)
    /\ games[1].status = StatusName("Published")
    /\ games[1].purchase_count = Seeded[1].purchase_count + 1
    /\ games[1].rating_count = Seeded[1].rating_count + 1
    /\ games[1].average_rating # Seeded[1].average_rating
    /\ games[1].screenshots = Append(Seeded[1].screenshots, "b.png")

(***************************************************************************)
(* One call of a view on a table of two published games, rated and bought  *)
(* or not                                                                  *)
(***************************************************************************)
RankedTables ==
    LET d2 == Draft("dev2", <<"go">>, <<"Strategy">>, 5 * One)
        a == create_game(<<>>, 1, TheDraft.name, TheDraft.description, TheDraft.developer_id,
                         TheDraft.publisher_id, TheDraft.cover_image, TheDraft.trailer_url,
                         TheDraft.release_date, TheDraft.categories, TheDraft.tags,
                         TheDraft.platforms, TheDraft.price, 0).store
        b == create_game(a, 2, d2.name, d2.description, d2.developer_id, d2.publisher_id,
                         d2.cover_image, d2.trailer_url, d2.release_date, d2.categories,
                         d2.tags, d2.platforms, d2.price, 0).store
        c == update_game(b, 1, [NoPatch EXCEPT !.status = Some("Published")], 0).store
        d == update_game(c, 2, [NoPatch EXCEPT !.status = Some("Published")], 0).store
        rated1 == {d, update_game_rating(d, 1, 5 * One, 0).store}
        rated2 == rated1 \cup {update_game_rating(g, 2, 5 * One, 0).store : g \in rated1}
        bought1 == rated2 \cup {increment_purchase_count(g, 1, 0).store : g \in rated2}
    IN  bought1 \cup {increment_purchase_count(g, 2, 0).store : g \in bought1}

InitViews ==
    /\ games \in RankedTables
    /\ calls = [s \in Slots |-> Idle]
    /\ now = 0
    /\ last = [op |-> "none", id |-> 0, arg |-> None, result |-> Ok(Unit)]
    /\ applied = [SeededCalls(games) EXCEPT ![1].updates = 1, ![2].updates = 1]
    /\ raced = {}
    /\ requests = NoRequests
    /\ admitted = NoneAdmitted

ViewCalls ==
    {Call("get_games_by_category", 0, [category |-> "Strategy", limit |-> l, offset |-> o]) :
        l \in {1, 10}, o \in {0, 1}}
    \cup {Call("get_popular_games", 0, l) : l \in {1, 10}}

NextViews ==
    \/ \E c \in ViewCalls : last.op = "none" /\ Issue(1, c)
    \/ GetGamesByCategory(1)
    \/ GetPopularGames(1)

SpecViews == InitViews /\ [][NextViews]_vars

\* row a comes before row b by average_rating descending, then purchase_count
\* descending, then id
RankedBefore(a, b) ==
    \/ ByRatingThenPurchases(a, b)
    \/ a.average_rating = b.average_rating /\ a.purchase_count = b.purchase_count /\ a.id < b.id

\* the rows of S in that order
Ranked(S) ==
    CHOOSE q \in [1..Cardinality(S) -> S] :
        \A i, j \in 1..Cardinality(S) : i < j => RankedBefore(q[i], q[j])

\* the published live rows
Published(g) == {r \in Rows(g) : r.status = StatusName("Published") /\ r.deleted_at = None}

\* C26: get_games_by_category and get_popular_games both return their rows
\* sorted by average_rating descending, then purchase_count descending, then
\* id: the order returned is a function of the table.
ViewsRankedAlike ==
    [][\A s \in Slots :
          Completed(s)
          => /\ calls[s].op = "get_games_by_category"
                => last'.result =
                     Ok(Window(Ranked({r \in Published(games) :
                                          CategoryString(calls[s].arg.category)
                                            \in Range(r.categories)}),
                               calls[s].arg.limit, calls[s].arg.offset))
             /\ calls[s].op = "get_popular_games"
                => last'.result = Ok(Window(Ranked(Published(games)), calls[s].arg, 0))]_vars

FreshUuid(g) == Cardinality(DOMAIN g) + 1

\* GameServiceImpl::create_game of grpc_service.rs, called by create_game_http:
\* the answer is built from the request and two readings of the clock
GrpcService_create_game(g, req, created, updated) ==
    [store |-> g,
     result |-> Ok([id |-> FreshUuid(g),
                    name |-> req.name,
                    description |-> Some(req.description),
                    developer_id |-> req.developer_id,
                    publisher_id |-> req.publisher_id,
                    cover_image |-> req.cover_image,
                    trailer_url |-> req.trailer_url,
                    release_date |-> req.release_date,
                    tags |-> req.tags,
                    platforms |-> req.platforms,
                    screenshots |-> <<>>,
                    price |-> req.price,
                    created_at |-> created,
                    updated_at |-> updated,
                    status |-> StatusToProto("Draft"),
                    categories |-> req.categories,
                    rating_count |-> 0,
                    average_rating |-> 0,
                    purchase_count |-> 0])]

\* the handler has started and taken its first reading of the clock
GrpcCreateGame(s) ==
    /\ calls[s].op = "grpc_create_game"
    /\ Return(s, GrpcService_create_game(games, calls[s].arg, calls[s].t, now))
    /\ UNCHANGED <<applied, raced>>

\* create requests served by either create handler, one at a time
FacadeCalls ==
    {Call("create_game_request", 0, CreateRequest),
     Call("grpc_create_game", 0, CreateRequest),
     Call("grpc_create_game", 0, [CreateRequest EXCEPT !.developer_id = "nobody"])}

NextFacade ==
    \/ \E c \in FacadeCalls : Issue(1, c)
    \/ CreateGameRequest(1)
    \/ GrpcCreateGame(1)
    \/ Tick

SpecFacade == Init /\ [][NextFacade]_vars

\* C29: every create request answered with success has inserted a live game
\* with the id and the timestamps of the answer: get_game_by_id finds that id, an
\* unfiltered list_games includes it, and its total_count has grown by one.
CreateAnswersAreStored ==
    [][\A s \in Slots :
          (/\ Completed(s)
           /\ calls[s].op \in {"create_game_request", "grpc_create_game"}
           /\ last'.result.kind = "Ok")
          => LET answer == last'.result.value
                 f == ListFilter(Unfiltered)
             IN  /\ get_game_by_id(games', answer.id) # None
                 /\ Unwrap(get_game_by_id(games', answer.id)).created_at = answer.created_at
                 /\ Unwrap(get_game_by_id(games', answer.id)).updated_at = answer.updated_at
                 /\ \A page \in list_games_page(games', f, ListLimit(Unfiltered),
                                                ListOffset(Unfiltered)) :
                       /\ page.kind = "Ok"
                       /\ \E i \in 1..Len(page.value) : page.value[i].id = answer.id
                 /\ list_games_total(games', f) = list_games_total(games, f) + 1]_vars

(***************************************************************************)
(* The gateway: requests of two clients passing the rate limiter           *)
(***************************************************************************)
\* rate_limit_middleware for a request of client ip: the call of
\* check_rate_limit holds the lock of the map from its first line to its last
RateLimitMiddleware(ip) ==
    LET r == check_rate_limit(requests, ip, RateLimit, RateWindow, now)
    IN  /\ requests' = r.requests
        /\ admitted' = IF r.result THEN [admitted EXCEPT ![ip] = Append(@, now)] ELSE admitted
        /\ last' = [op |-> "check_rate_limit", id |-> 0, arg |-> [ip |-> ip, instant |-> now],
                    result |-> Ok(r.result)]
        /\ UNCHANGED <<games, calls, now, applied, raced>>

\* the gateway's clock advances
Elapse ==
    /\ now < MaxInstant
    /\ now' = now + 1
    /\ UNCHANGED <<games, calls, last, applied, raced, requests, admitted>>

NextLimiter ==
    \/ \E ip \in Ips : RateLimitMiddleware(ip)
    \/ Elapse

SpecLimiter == Init /\ [][NextLimiter]_vars

\* how many of the instants of q lie in from..to
CountIn(q, from, to) == Cardinality({i \in 1..Len(q) : from <= q[i] /\ q[i] <= to})

\* the timestamps the limiter holds for ip
Timestamps(reqs, ip) == IF ip \in DOMAIN reqs THEN reqs[ip] ELSE <<>>

\* the step is a call of check_rate_limit
Checked ==
    /\ last'.op = "check_rate_limit"
    /\ \/ last.op # "check_rate_limit"
       \/ last'.arg # last.arg
       \/ last'.result # last.result
       \/ requests' # requests

\* C30: for every ip, the admissions whose instants lie in any span shorter
\* than the window are at most limit; a request of ip is admitted exactly when
\* fewer than limit requests of ip were admitted within the window before it,
\* whatever the other ips did; a rejected request is not recorded; after a call
\* for ip no timestamp of ip as old as the window is kept; and a call for one
\* ip changes nothing of another ip.
RateLimitHolds ==
    [][\A ip \in Ips :
          /\ \A from \in 0..MaxInstant :
                CountIn(admitted'[ip], from, from + RateWindow - 1) <= RateLimit
          /\ Checked
             => IF last'.arg.ip = ip
                THEN /\ \A i \in 1..Len(requests'[ip]) : now - requests'[ip][i] < RateWindow
                     /\ last'.result =
                          Ok(CountIn(admitted[ip], now - RateWindow + 1, now) < RateLimit)
                     /\ last'.result = Ok(FALSE)
                        => /\ admitted'[ip] = admitted[ip]
                           /\ requests'[ip] = Retain(Timestamps(requests, ip), now, RateWindow)
                     /\ last'.result = Ok(TRUE)
                        => /\ admitted'[ip] = Append(admitted[ip], now)
                           /\ requests'[ip] =
                                Append(Retain(Timestamps(requests, ip), now, RateWindow), now)
                ELSE /\ admitted'[ip] = admitted[ip]
                     /\ Timestamps(requests', ip) = Timestamps(requests, ip)
                     /\ (ip \in DOMAIN requests') = (ip \in DOMAIN requests)]_vars

\* a client is admitted again once its first requests have left the window,
\* while the other client has used up its own limit and was just rejected
AdmittedAfterExpiry ==
    /\ Len(admitted["10.0.0.1"]) = RateLimit + 1
    /\ "unknown" \in DOMAIN requests
    /\ Len(requests["unknown"]) = RateLimit
    /\ last.op = "check_rate_limit"
    /\ last.arg.ip = "unknown"
    /\ last.result = Ok(FALSE)

====
